---- MODULE Spec2Model ----
(***************************************************************************)
(* LingQ-to-Anki: main.py as a state machine.                              *)
(*                                                                         *)
(* One run of main(argv).  The parsed arguments are fixed by Init; every   *)
(* network request of the script is one step: the request goes on the      *)
(* wire, the peer's reply is chosen among the replies a peer can give, and *)
(* the calling function finishes (returning, or raising, which ends the    *)
(* process with exit status 1 because main catches nothing).               *)
(***************************************************************************)
EXTENDS Integers, Sequences, FiniteSets

VARIABLES
    args,             \* argparse Namespace (parse_arguments)
    pc,               \* position of main
    network,          \* every request issued so far, with the reply it got
    stdout,           \* lines printed to standard output
    stderr,           \* lines printed to standard error
    token,            \* main's local `token`
    cards,            \* main's local `cards`
    notes_to_create,  \* main's local `notes_to_create`
    note_ids,         \* main's local `note_ids`
    lingq_idx,        \* position of `for lingq in cards` (1-based)
    raised,           \* the uncaught exception, "" when none
    exit_code         \* process exit status, -1 while the process runs

vars == <<args, pc, network, stdout, stderr, token, cards, notes_to_create,
          note_ids, lingq_idx, raised, exit_code>>

-----------------------------------------------------------------------------
(* Bounds and sample data *)

MaxCards == 3     \* longest card list the learning service returns

Null == "None"    \* Python None / JSON null

Commands == {"decks", "models", "model", "langs", "import"}

\* Sample cards of the learning service (the fields main reads): with no
\* hint, with one hint, with several.
Hints(texts) == [i \in 1..Len(texts) |-> [text |-> texts[i]]]

CardPool ==
    {[pk |-> 185034977, term |-> "des que", hints |-> Hints(<<"as soon as">>)],
     [pk |-> 185034978, term |-> "chat", hints |-> Hints(<<>>)],
     [pk |-> 185034979, term |-> "maison", hints |-> Hints(<<"house", "home">>)],
     [pk |-> 185034980, term |-> "livre",
      hints |-> Hints(<<"book", "pound", "delivers">>)]}

SeqsUpTo(S, n) == UNION {[1..k -> S] : k \in 0..n}

StatusCodes == {200, 401, 500}
NoteIds == {"1496198395707"}
Versions == {6}
Tokens == {"tok"}
NameLists == {<<>>, <<"Default">>, <<"Default", "French">>}
DeckArgs == {"French", Null}
ModelArgs == {"Basic"}

-----------------------------------------------------------------------------
(* Replies of the two peers *)

\* What the HTTP layer can report: no connection, or a status code.
Transport == {[conn |-> FALSE, status |-> 0]}
             \cup {[conn |-> TRUE, status |-> s] : s \in StatusCodes}

\* AnkiConnect reply bodies {"result": ..., "error": ...}
AnkiReplies(results) ==
    {[conn |-> t.conn, status |-> t.status, error |-> e, result |-> r] :
        t \in Transport, e \in {Null, "collection is not available"},
        r \in results}

LoginReplies ==
    {[conn |-> t.conn, status |-> t.status, error |-> Null, token |-> k] :
        t \in Transport, k \in Tokens}

LanguageReplies ==
    {[conn |-> t.conn, status |-> t.status, error |-> Null, codes |-> c] :
        t \in Transport, c \in {<<>>, <<"fr">>, <<"fr", "de">>}}

CardReplies ==
    {[conn |-> t.conn, status |-> t.status, error |-> Null,
      count |-> c, results |-> r] :
        t \in Transport, c \in 0..(MaxCards + 2),
        r \in SeqsUpTo(CardPool, MaxCards)}

MarkReplies ==
    {[conn |-> t.conn, status |-> t.status, error |-> Null] : t \in Transport}

\* A request as recorded on the wire, with the reply's envelope (and, for
\* the card list, the reply's count and the number of results it carried).
Req(action, notes, id, resp) ==
    [action |-> action, notes |-> notes, id |-> id,
     conn |-> resp.conn, status |-> resp.status, error |-> resp.error,
     count |-> 0, n |-> 0]

CardsReq(resp) ==
    [Req("cards", <<>>, 0, resp) EXCEPT !.count = resp.count,
                                        !.n = Len(resp.results)]

Line(kind, front, back, n) ==
    [kind |-> kind, front |-> front, back |-> back, n |-> n]

-----------------------------------------------------------------------------
(* The functions of main.py *)

\* requests: get/post/put raise ConnectionError when no reply arrives,
\* raise_for_status raises HTTPError on a 4xx or 5xx status.
raise_for_status(resp) ==
    IF ~resp.conn THEN "ConnectionError"
    ELSE IF resp.status >= 400 /\ resp.status < 600 THEN "HTTPError"
    ELSE ""

Ok(v) == [raised |-> "", result |-> v]
Err(e) == [raised |-> e, result |-> Null]

\* anki_request without the check of the reply's error field
anki_request_NoErrorCheck(resp) ==
    IF raise_for_status(resp) # "" THEN Err(raise_for_status(resp))
    ELSE Ok(resp.result)

anki_request(resp) ==
    IF raise_for_status(resp) # "" THEN Err(raise_for_status(resp))
    ELSE IF resp.error # Null THEN Err("Exception")
    ELSE Ok(resp.result)

\* lingq_login without auth.raise_for_status()
lingq_login_NoRaise(resp) ==
    IF ~resp.conn THEN Err("ConnectionError") ELSE Ok(resp.token)

lingq_login(resp) ==
    IF raise_for_status(resp) # "" THEN Err(raise_for_status(resp))
    ELSE Ok(resp.token)

lingq_list_languages(resp) ==
    IF raise_for_status(resp) # "" THEN Err(raise_for_status(resp))
    ELSE Ok(resp.codes)

\* list_unlearned_cards without the assert
list_unlearned_cards_NoAssert(resp) ==
    IF raise_for_status(resp) # "" THEN Err(raise_for_status(resp))
    ELSE Ok(resp.results)

list_unlearned_cards(resp) ==
    IF raise_for_status(resp) # "" THEN Err(raise_for_status(resp))
    ELSE IF Len(resp.results) # resp.count THEN Err("AssertionError")
    ELSE Ok(resp.results)

\* mark_linqg_known without r.raise_for_status()
mark_linqg_known_NoRaise(resp) == IF ~resp.conn THEN "ConnectionError" ELSE ""

mark_linqg_known(resp) == raise_for_status(resp)

\* the filter written as len(card["hints"]) > 1
HasHints_MoreThanOne(card) == Len(card.hints) > 1

\* if len(card["hints"]) > 0
HasHints(card) == Len(card.hints) > 0

\* the payload taking the last hint instead of the first
NotePayload_LastHint(card, a) ==
    [deckName |-> a.deck, modelName |-> a.model,
     Front |-> card.term, Back |-> card.hints[Len(card.hints)].text,
     tags |-> "lingq"]

NotePayload(card, a) ==
    [deckName |-> a.deck, modelName |-> a.model,
     Front |-> card.term, Back |-> card.hints[1].text, tags |-> "lingq"]

\* [payload for card in cards if len(card["hints"]) > 0]
RECURSIVE NotesToCreate(_, _)
NotesToCreate(cs, a) ==
    IF cs = <<>> THEN <<>>
    ELSE IF HasHints(Head(cs))
         THEN <<NotePayload(Head(cs), a)>> \o NotesToCreate(Tail(cs), a)
         ELSE NotesToCreate(Tail(cs), a)

\* print(*names, sep="\n"): one line per name, an empty line for no name
PrintStar(names) ==
    IF names = <<>> THEN <<Line("name", "", Null, 0)>>
    ELSE [i \in 1..Len(names) |-> Line("name", names[i], Null, 0)]

\* the report with the None test inverted
ReportLine_Inverted(note, note_id) ==
    IF note_id # Null THEN Line("duplicate", note.Front, Null, 0)
    ELSE Line("added", note.Front, note.Back, 0)

\* The body of `for i, note_id in enumerate(note_ids)`
ReportLine(note, note_id) ==
    IF note_id = Null THEN Line("duplicate", note.Front, Null, 0)
    ELSE Line("added", note.Front, note.Back, 0)

\* valid_ids = [n for n in note_ids if n is not None]
ValidIds(ids) == SelectSeq(ids, LAMBDA n : n # Null)

CountLine(ids) == Line("count", Null, Null, Len(ValidIds(ids)))

\* the loop running over the cards that produced a note only
LingqsToMark_NotedOnly(cs, notes) == SelectSeq(cs, HasHints)

\* for lingq in cards
LingqsToMark(cs, notes) == cs

\* the import branch without its version probe
FirstStep_ImportSkipsProbe(command) ==
    CASE command \in {"decks", "models", "model"} -> "version"
      [] command \in {"langs", "import"} -> "login"
      [] OTHER -> "unknown"

\* The if / elif chain of main: where each command starts.
FirstStep(command) ==
    CASE command \in {"decks", "models", "model", "import"} -> "version"
      [] command = "langs" -> "login"
      [] OTHER -> "unknown"

AfterVersion(command) ==
    CASE command = "decks" -> "deckNames"
      [] command = "models" -> "modelNames"
      [] command = "model" -> "modelFieldNames"
      [] OTHER -> "login"

AfterLogin(command) == IF command = "langs" THEN "languages" ELSE "cards"

-----------------------------------------------------------------------------
(* Initial state: the arguments argparse accepts *)

ImportArgs ==
    {[command |-> "import", dry_run |-> d, mark_known |-> m, deck |-> dk,
      model |-> md] :
        d \in BOOLEAN, m \in BOOLEAN, dk \in DeckArgs, md \in ModelArgs}

OtherArgs ==
    {[command |-> c, dry_run |-> FALSE, mark_known |-> FALSE, deck |-> Null,
      model |-> Null] : c \in (Commands \ {"import"}) \cup {Null}}

Init ==
    /\ args \in ImportArgs \cup OtherArgs
    /\ pc = "main"
    /\ network = <<>>
    /\ stdout = <<>>
    /\ stderr = <<>>
    /\ token = Null
    /\ cards = <<>>
    /\ notes_to_create = <<>>
    /\ note_ids = <<>>
    /\ lingq_idx = 1
    /\ raised = ""
    /\ exit_code = -1

-----------------------------------------------------------------------------
(* Steps of main *)

locals == <<token, cards, notes_to_create, note_ids, lingq_idx>>

\* An exception nobody catches: traceback, exit status 1.
Raise(e) ==
    /\ raised' = e
    /\ exit_code' = 1
    /\ pc' = "done"

Dispatch ==
    /\ pc = "main"
    /\ FirstStep(args.command) # "unknown"
    /\ pc' = FirstStep(args.command)
    /\ UNCHANGED <<args, network, stdout, stderr, locals, raised, exit_code>>

NoSuchCommand ==
    /\ pc = "main"
    /\ FirstStep(args.command) = "unknown"
    /\ stdout' = Append(stdout, Line("no_such_command", args.command, Null, 0))
    /\ exit_code' = 1
    /\ pc' = "done"
    /\ UNCHANGED <<args, network, stderr, locals, raised>>

AnkiConnectVersion ==
    /\ pc = "version"
    /\ \E resp \in AnkiReplies(Versions) :
         LET out == anki_request(resp) IN
         /\ network' = Append(network, Req("version", <<>>, 0, resp))
         /\ IF out.raised # ""
            THEN Raise(out.raised) /\ UNCHANGED stderr
            ELSE /\ stderr' = Append(stderr, Line("connected", Null, Null, out.result))
                 /\ pc' = AfterVersion(args.command)
                 /\ UNCHANGED <<raised, exit_code>>
    /\ UNCHANGED <<args, stdout, locals>>

\* decks / models / model: one listing request, its names printed
AnkiList(action) ==
    /\ pc = action
    /\ \E resp \in AnkiReplies(NameLists) :
         LET out == anki_request(resp) IN
         /\ network' = Append(network, Req(action, <<>>, 0, resp))
         /\ IF out.raised # ""
            THEN Raise(out.raised) /\ UNCHANGED stdout
            ELSE /\ stdout' = stdout \o PrintStar(out.result)
                 /\ pc' = "return"
                 /\ UNCHANGED <<raised, exit_code>>
    /\ UNCHANGED <<args, stderr, locals>>

ListDecks ==
    /\ args.command = "decks"
    /\ AnkiList("deckNames")

ListModels ==
    /\ args.command = "models"
    /\ AnkiList("modelNames")

ModelFields ==
    /\ args.command = "model"
    /\ AnkiList("modelFieldNames")

Login ==
    /\ pc = "login"
    /\ \E resp \in LoginReplies :
         LET out == lingq_login(resp) IN
         /\ network' = Append(network, Req("login", <<>>, 0, resp))
         /\ IF out.raised # ""
            THEN Raise(out.raised) /\ UNCHANGED token
            ELSE /\ token' = out.result
                 /\ pc' = AfterLogin(args.command)
                 /\ UNCHANGED <<raised, exit_code>>
    /\ UNCHANGED <<args, stdout, stderr, cards, notes_to_create, note_ids,
                   lingq_idx>>

ListLanguages ==
    /\ pc = "languages"
    /\ \E resp \in LanguageReplies :
         LET out == lingq_list_languages(resp) IN
         /\ network' = Append(network, Req("languages", <<>>, 0, resp))
         /\ IF out.raised # ""
            THEN Raise(out.raised) /\ UNCHANGED stdout
            ELSE /\ stdout' = stdout \o PrintStar(out.result)
                 /\ pc' = "return"
                 /\ UNCHANGED <<raised, exit_code>>
    /\ UNCHANGED <<args, stderr, locals>>

ListUnlearnedCards ==
    /\ pc = "cards"
    /\ \E resp \in CardReplies :
         LET out == list_unlearned_cards(resp) IN
         /\ network' = Append(network, CardsReq(resp))
         /\ IF out.raised # ""
            THEN Raise(out.raised) /\ UNCHANGED cards
            ELSE /\ cards' = out.result
                 /\ pc' = "notes"
                 /\ UNCHANGED <<raised, exit_code>>
    /\ UNCHANGED <<args, stdout, stderr, token, notes_to_create, note_ids,
                   lingq_idx>>

BuildNotes ==
    /\ pc = "notes"
    /\ notes_to_create' = NotesToCreate(cards, args)
    /\ pc' = "submit"
    /\ UNCHANGED <<args, network, stdout, stderr, token, cards, note_ids,
                   lingq_idx, raised, exit_code>>

DryRunSubmit ==
    /\ pc = "submit"
    /\ args.dry_run
    /\ stdout' = stdout \o [i \in 1..Len(notes_to_create) |->
                      Line("would_add", notes_to_create[i].Front,
                           notes_to_create[i].Back, 0)]
    /\ pc' = "mark"
    /\ UNCHANGED <<args, network, stderr, locals, raised, exit_code>>

\* The report loop: notes_to_create[i] raises IndexError once i passes the
\* last payload, after the lines before it were printed.
ReportLines(notes, ids) ==
    [i \in 1..(IF Len(ids) < Len(notes) THEN Len(ids) ELSE Len(notes)) |->
        ReportLine(notes[i], ids[i])]

AddNotes ==
    /\ pc = "submit"
    /\ ~args.dry_run
    /\ \E resp \in AnkiReplies(SeqsUpTo(NoteIds \cup {Null},
                                        Len(notes_to_create) + 1)) :
         LET out == anki_request(resp) IN
         /\ network' = Append(network, Req("addNotes", notes_to_create, 0, resp))
         /\ IF out.raised # ""
            THEN Raise(out.raised) /\ UNCHANGED <<stdout, note_ids>>
            ELSE /\ note_ids' = out.result
                 /\ IF Len(out.result) > Len(notes_to_create)
                    THEN /\ stdout' = stdout \o ReportLines(notes_to_create, out.result)
                         /\ Raise("IndexError")
                    ELSE /\ stdout' = stdout \o ReportLines(notes_to_create, out.result)
                                         \o <<CountLine(out.result)>>
                         /\ pc' = "mark"
                         /\ UNCHANGED <<raised, exit_code>>
    /\ UNCHANGED <<args, stderr, token, cards, notes_to_create, lingq_idx>>

\* the mark loop without its dry-run test: every card is marked for real
DryRunMark_Live ==
    /\ pc = "mark"
    /\ args.mark_known
    /\ args.dry_run
    /\ LET ls == LingqsToMark(cards, notes_to_create) IN
         /\ network' = network \o [i \in 1..Len(ls) |->
                 Req("markKnown", <<>>, ls[i].pk,
                     [conn |-> TRUE, status |-> 200, error |-> Null])]
         /\ stdout' = stdout \o [i \in 1..Len(ls) |->
                           Line("marked", ls[i].term, Null, 0)]
         /\ lingq_idx' = Len(ls) + 1
    /\ pc' = "return"
    /\ UNCHANGED <<args, stderr, token, cards, notes_to_create,
                   note_ids, raised, exit_code>>

\* if args.mark_known, dry run: the loop only prints
DryRunMark ==
    /\ pc = "mark"
    /\ args.mark_known
    /\ args.dry_run
    /\ LET ls == LingqsToMark(cards, notes_to_create) IN
         /\ stdout' = stdout \o [i \in 1..Len(ls) |->
                           Line("would_mark", ls[i].term, Null, 0)]
         /\ lingq_idx' = Len(ls) + 1
    /\ pc' = "return"
    /\ UNCHANGED <<args, network, stderr, token, cards, notes_to_create,
                   note_ids, raised, exit_code>>

\* if args.mark_known, live: one iteration of the loop
MarkKnown ==
    /\ pc = "mark"
    /\ args.mark_known
    /\ ~args.dry_run
    /\ LET ls == LingqsToMark(cards, notes_to_create) IN
         /\ lingq_idx <= Len(ls)
         /\ \E resp \in MarkReplies :
              /\ network' = Append(network,
                                   Req("markKnown", <<>>, ls[lingq_idx].pk, resp))
              /\ IF mark_linqg_known(resp) # ""
                 THEN Raise(mark_linqg_known(resp)) /\ UNCHANGED <<stdout, lingq_idx>>
                 ELSE /\ stdout' = Append(stdout,
                                  Line("marked", ls[lingq_idx].term, Null, 0))
                      /\ lingq_idx' = lingq_idx + 1
                      /\ UNCHANGED <<pc, raised, exit_code>>
    /\ UNCHANGED <<args, stderr, token, cards, notes_to_create, note_ids>>

\* return 0, then sys.exit(main(...))
Return ==
    /\ \/ pc = "return"
       \/ /\ pc = "mark"
          /\ \/ ~args.mark_known
             \/ /\ ~args.dry_run
                /\ lingq_idx > Len(LingqsToMark(cards, notes_to_create))
    /\ exit_code' = 0
    /\ pc' = "done"
    /\ UNCHANGED <<args, network, stdout, stderr, locals, raised>>

Next ==
    \/ Dispatch
    \/ NoSuchCommand
    \/ AnkiConnectVersion
    \/ ListDecks
    \/ ListModels
    \/ ModelFields
    \/ Login
    \/ ListLanguages
    \/ ListUnlearnedCards
    \/ BuildNotes
    \/ DryRunSubmit
    \/ AddNotes
    \/ DryRunMark
    \/ MarkKnown
    \/ Return

Spec == Init /\ [][Next]_vars

-----------------------------------------------------------------------------
(* Vocabulary of the properties *)

IsImport == args.command = "import"
Finished == pc = "done"
Succeeded == pc = "done" /\ exit_code = 0

\* A request failed at the transport or protocol level.
Failed(r) == ~r.conn \/ r.status >= 400 \/ r.error # Null

RequestsOf(action) == SelectSeq(network, LAMBDA r : r.action = action)
LinesOf(kind) == SelectSeq(stdout, LAMBDA l : l.kind = kind)

\* Positions, in the fetched list, of the cards that carry a hint, and the
\* i-th of them.
Retained == {j \in 1..Len(cards) : cards[j].hints # <<>>}
NthRetained(i) == CHOOSE j \in Retained : Cardinality({k \in Retained : k <= j}) = i

\* What an import of the fetched cards intends: the (front, back) pairs to
\* add and the cards to mark.
IntendedAdds == [i \in 1..Cardinality(Retained) |->
                    <<cards[NthRetained(i)].term, cards[NthRetained(i)].hints[1].text>>]
IntendedMarks == IF args.mark_known THEN cards ELSE <<>>

-----------------------------------------------------------------------------
(* C1 *)

\* C1: once the payloads are built, notes_to_create has one payload per
\* fetched card with a non-empty hints sequence, in the order of the fetched
\* list, and none for a card with no hint; what reaches addNotes is exactly
\* that list, so no hintless card reaches the flashcard app.
C1_OnlyHintedCardsBecomeNotes ==
    (IsImport /\ pc # "notes") =>
        /\ Len(notes_to_create) = Cardinality(Retained)
        /\ \A i \in 1..Len(notes_to_create) :
              notes_to_create[i].Front = cards[NthRetained(i)].term
        /\ \A i \in 1..Len(network) :
              network[i].action = "addNotes" =>
                  /\ network[i].notes = notes_to_create
                  /\ \A k \in 1..Len(network[i].notes) :
                        \E j \in Retained : network[i].notes[k].Front = cards[j].term

C1_Witness ==
    /\ IsImport /\ Succeeded /\ ~args.dry_run
    /\ Len(cards) = 3
    /\ cards[2].hints = <<>> /\ cards[1].hints # <<>> /\ cards[3].hints # <<>>
    /\ cards[1] # cards[3]
    /\ Len(notes_to_create) = 2
    /\ Len(RequestsOf("addNotes")) = 1

-----------------------------------------------------------------------------
(* C2 *)

\* C2: a dry run never issues addNotes nor a mark-known request, whatever
\* --mark-known is; and a finished dry run has printed, as 'Would try to add
\* card' lines, exactly the (front, back) pairs a finished live run submits
\* to addNotes for the same fetched cards, and, as 'Would mark lingq' lines,
\* exactly the cards a finished live run calls mark-known for.
C2_DryRunPrintsWhatLiveDoes ==
    IsImport =>
        /\ args.dry_run =>
              \A i \in 1..Len(network) :
                  network[i].action \notin {"addNotes", "markKnown"}
        /\ (Succeeded /\ args.dry_run) =>
              /\ [i \in 1..Len(LinesOf("would_add")) |->
                     <<LinesOf("would_add")[i].front, LinesOf("would_add")[i].back>>]
                 = IntendedAdds
              /\ [i \in 1..Len(LinesOf("would_mark")) |-> LinesOf("would_mark")[i].front]
                 = [i \in 1..Len(IntendedMarks) |-> IntendedMarks[i].term]
              /\ LinesOf("added") = <<>> /\ LinesOf("marked") = <<>>
        /\ (Succeeded /\ ~args.dry_run) =>
              /\ Len(RequestsOf("addNotes")) = 1
              /\ [i \in 1..Len(RequestsOf("addNotes")[1].notes) |->
                     <<RequestsOf("addNotes")[1].notes[i].Front,
                       RequestsOf("addNotes")[1].notes[i].Back>>]
                 = IntendedAdds
              /\ [i \in 1..Len(RequestsOf("markKnown")) |-> RequestsOf("markKnown")[i].id]
                 = [i \in 1..Len(IntendedMarks) |-> IntendedMarks[i].pk]

C2_Witness ==
    /\ IsImport /\ Succeeded /\ args.dry_run /\ args.mark_known
    /\ Len(cards) = 3
    /\ Len(LinesOf("would_mark")) = 3
    /\ Len(LinesOf("would_add")) = 2
    /\ RequestsOf("markKnown") = <<>>

-----------------------------------------------------------------------------
(* C3 *)

\* C3: when the card-list reply's count differs from the number of results
\* it carries, list_unlearned_cards raises (AssertionError when the reply
\* itself arrived) and returns no list: the process ends with a non-zero
\* status, that request is the last one, nothing was submitted or marked and
\* no line was printed to standard output.
C3_PaginationGuard ==
    \A i \in 1..Len(network) :
        (network[i].action = "cards" /\ network[i].count # network[i].n) =>
            /\ i = Len(network)
            /\ Finished /\ exit_code = 1
            /\ ~Failed(network[i]) => raised = "AssertionError"
            /\ raised # ""
            /\ cards = <<>> /\ notes_to_create = <<>>
            /\ stdout = <<>>
            /\ RequestsOf("addNotes") = <<>> /\ RequestsOf("markKnown") = <<>>

C3_Witness ==
    /\ IsImport /\ Finished /\ raised = "AssertionError"
    /\ Len(network) = 3
    /\ network[3].action = "cards" /\ ~Failed(network[3])
    /\ network[3].count = 5 /\ network[3].n = 3

-----------------------------------------------------------------------------
(* C4 *)

\* C4: a live import with --mark-known that ends without error has issued
\* one mark-known request per fetched card, in fetch order and for that
\* card's pk, hintless cards and duplicates included, and none besides;
\* without --mark-known no mark-known request is ever issued.
C4_MarkKnownCoversEveryFetchedCard ==
    IsImport =>
        /\ ~args.mark_known => RequestsOf("markKnown") = <<>>
        /\ (Succeeded /\ ~args.dry_run /\ args.mark_known) =>
              /\ [i \in 1..Len(RequestsOf("markKnown")) |-> RequestsOf("markKnown")[i].id]
                 = [i \in 1..Len(cards) |-> cards[i].pk]
              /\ [i \in 1..Len(LinesOf("marked")) |-> LinesOf("marked")[i].front]
                 = [i \in 1..Len(cards) |-> cards[i].term]

C4_Witness ==
    /\ IsImport /\ Succeeded /\ ~args.dry_run /\ args.mark_known
    /\ Len(cards) = 3
    /\ cards[1].hints = <<>>
    /\ Len(note_ids) = 2 /\ note_ids[1] = Null /\ note_ids[2] # Null
    /\ Len(RequestsOf("markKnown")) = 3

-----------------------------------------------------------------------------
(* C5 *)

\* addNotes returned, without error, as many results as payloads were sent.
AddNotesAligned ==
    /\ IsImport /\ ~args.dry_run
    /\ \E i \in 1..Len(network) :
          network[i].action = "addNotes" /\ ~Failed(network[i])
    /\ Len(note_ids) = Len(notes_to_create)

\* C5: when addNotes returns N results for N payloads, standard output starts
\* with one line per payload in payload order, 'Added card' exactly for the
\* non-null results and 'Card was a duplicate' exactly for the null ones,
\* followed by the count line whose number is the number of non-null
\* results; a null result raises nothing, the run goes on to the mark-known
\* step.
C5_ReportAlignsWithResults ==
    AddNotesAligned =>
        LET N == Len(notes_to_create) IN
        /\ Len(stdout) >= N + 1
        /\ \A i \in 1..N :
              /\ stdout[i].front = notes_to_create[i].Front
              /\ stdout[i].kind \in {"added", "duplicate"}
              /\ stdout[i].kind = "added" <=> note_ids[i] # Null
              /\ stdout[i].kind = "duplicate" <=> note_ids[i] = Null
              /\ stdout[i].kind = "added" => stdout[i].back = notes_to_create[i].Back
        /\ stdout[N + 1].kind = "count"
        /\ stdout[N + 1].n = Cardinality({i \in 1..N : note_ids[i] # Null})
        /\ Len(LinesOf("added")) + Len(LinesOf("duplicate")) = N
        /\ Len(LinesOf("count")) = 1
        /\ raised # "" => network[Len(network)].action = "markKnown"
        /\ (Finished /\ RequestsOf("markKnown") = <<>>) => exit_code = 0

C5_Witness ==
    /\ AddNotesAligned /\ Succeeded
    /\ Len(note_ids) = 2 /\ note_ids[1] # Null /\ note_ids[2] = Null
    /\ stdout[1].kind = "added" /\ stdout[2].kind = "duplicate"
    /\ stdout[3].kind = "count" /\ stdout[3].n = 1

-----------------------------------------------------------------------------
(* C6 *)

\* C6: an import issues its first three requests in the order version
\* probe, login, card list; when one of them fails at the transport or
\* protocol level it is the last request, the process has ended with exit
\* status 1 and nothing was printed to standard output.
C6_ImportAbortsOnEarlyFailure ==
    IsImport =>
        /\ Len(network) >= 1 => network[1].action = "version"
        /\ Len(network) >= 2 => network[2].action = "login"
        /\ Len(network) >= 3 => network[3].action = "cards"
        /\ \A i \in 1..Len(network) :
              (i <= 3 /\ Failed(network[i])) =>
                  /\ i = Len(network)
                  /\ Finished /\ exit_code = 1 /\ raised # ""
                  /\ stdout = <<>>
                  /\ cards = <<>> /\ notes_to_create = <<>>

C6_Witness ==
    /\ IsImport /\ Finished /\ exit_code = 1
    /\ Len(network) = 2
    /\ ~Failed(network[1])
    /\ network[2].action = "login" /\ network[2].status = 401
    /\ Len(stderr) = 1

-----------------------------------------------------------------------------
(* C7 *)

\* The first request of the run is the version probe, and a failed probe is
\* the only request.
ProbeFirst ==
    Len(network) >= 1 =>
        /\ network[1].action = "version"
        /\ Failed(network[1]) => Len(network) = 1

\* C7 as stated: for every subcommand, langs included, the version probe is
\* the first request and a failed probe is the only one.
C7_ProbeFirstForEveryCommand ==
    args.command \in Commands => ProbeFirst

\* C7 amended: for decks, models, model and import the version probe is the
\* first request and a failed probe is the only one; langs never probes the
\* flashcard app, its requests go to the learning service only, login first.
C7_ProbeFirstForAnkiCommands ==
    /\ args.command \in {"decks", "models", "model", "import"} => ProbeFirst
    /\ args.command = "langs" =>
          /\ RequestsOf("version") = <<>>
          /\ Len(network) >= 1 => network[1].action = "login"
          /\ \A i \in 1..Len(network) : network[i].action \in {"login", "languages"}

C7_Witness ==
    /\ IsImport /\ Succeeded
    /\ Len(network) >= 4
    /\ network[1].action = "version" /\ ~Failed(network[1])

-----------------------------------------------------------------------------
(* C8 *)

\* C8: every payload is, for some fetched card with a hint, the record with
\* Front = the card's term, Back = the text of the card's first hint,
\* deckName = --deck, modelName = --model and tags = "lingq"; and every
\* fetched card with a hint has such a payload, however many hints follow
\* the first.
PayloadOf(card) ==
    [deckName |-> args.deck, modelName |-> args.model, Front |-> card.term,
     Back |-> card.hints[1].text, tags |-> "lingq"]

C8_PayloadFields ==
    (IsImport /\ pc # "notes") =>
        /\ \A i \in 1..Len(notes_to_create) :
              \E j \in Retained : notes_to_create[i] = PayloadOf(cards[j])
        /\ \A j \in Retained :
              \E i \in 1..Len(notes_to_create) : notes_to_create[i] = PayloadOf(cards[j])

C8_Witness ==
    /\ IsImport /\ pc = "submit" /\ args.deck = "French"
    /\ \E j \in 1..Len(cards) : Len(cards[j].hints) = 3
    /\ \E i \in 1..Len(notes_to_create) :
          /\ notes_to_create[i].Front = "livre"
          /\ notes_to_create[i].Back = "book"
          /\ notes_to_create[i].deckName = "French"
          /\ notes_to_create[i].modelName = "Basic"

-----------------------------------------------------------------------------
(* C9 *)

\* C9: every mark-known request comes after an addNotes request that did
\* not fail, addNotes is requested at most once, and a failed addNotes is
\* the last request of the run.
C9_NoMarkBeforeNotesSubmitted ==
    IsImport =>
        /\ Len(RequestsOf("addNotes")) <= 1
        /\ \A i \in 1..Len(network) :
              /\ network[i].action = "markKnown" =>
                    \E j \in 1..(i - 1) :
                        network[j].action = "addNotes" /\ ~Failed(network[j])
              /\ (network[i].action = "addNotes" /\ Failed(network[i])) =>
                    /\ i = Len(network)
                    /\ Finished /\ exit_code = 1

C9_Witness ==
    /\ IsImport /\ ~args.dry_run /\ args.mark_known
    /\ Len(network) = 6
    /\ network[4].action = "addNotes" /\ ~Failed(network[4])
    /\ network[5].action = "markKnown"
    /\ network[6].action = "markKnown"

-----------------------------------------------------------------------------
(* C10 *)

\* C10: when a mark-known request fails, it is the last request of the run
\* and was sent once; with it the k-th mark-known request, the requests went
\* to the first k fetched cards in fetch order, exactly the first k-1 cards
\* are reported 'Marked', and the process has ended with exit status 1.
C10_MarkLoopAbortsOnFirstError ==
    \A i \in 1..Len(network) :
        (network[i].action = "markKnown" /\ Failed(network[i])) =>
            LET k == Len(RequestsOf("markKnown")) IN
            /\ i = Len(network)
            /\ Finished /\ exit_code = 1 /\ raised # ""
            /\ k <= Len(cards)
            /\ [m \in 1..k |-> RequestsOf("markKnown")[m].id]
               = [m \in 1..k |-> cards[m].pk]
            /\ \A m \in 1..(k - 1) : ~Failed(RequestsOf("markKnown")[m])
            /\ [m \in 1..Len(LinesOf("marked")) |-> LinesOf("marked")[m].front]
               = [m \in 1..(k - 1) |-> cards[m].term]

C10_Witness ==
    /\ IsImport /\ Finished /\ exit_code = 1
    /\ Len(cards) = 3
    /\ Len(RequestsOf("markKnown")) = 2
    /\ Failed(network[Len(network)])
    /\ network[Len(network)].action = "markKnown"
    /\ Len(LinesOf("marked")) = 1

====
